---- MODULE Spec2Model ----
(***************************************************************************)
(* Incident lifecycle of the Crisis Command Center backend                 *)
(* (src/app/routes/incidents.py over the Incident table of                 *)
(* src/app/models/db_models.py).                                           *)
(*                                                                         *)
(* The server is one uvicorn process (src/app/main.py:123-128) and the     *)
(* three mutating handlers are `async def` bodies without an await, so     *)
(* each handler runs to its commit without interleaving: one action per    *)
(* handler.  Requests of concurrent callers are therefore served one after *)
(* the other, in either order; no handler reads who the caller is.         *)
(*                                                                         *)
(* Columns of Incident that no handler below reads back (location,         *)
(* description, terror_related, financial_aid_estimate, created_at) are    *)
(* left out of the row.                                                    *)
(*                                                                         *)
(* The second half models the websocket ConnectionManager                  *)
(* (src/app/ws_handlers/handler.py) and the endpoint coroutines that use   *)
(* it (src/app/ws_handlers/routes.py): coroutines interleave at their      *)
(* awaits and nowhere else.  SpecWs has the endpoints with the broadcasts,  *)
(* SpecUser the endpoints with PING and the notifications of send_to_user. *)
(*                                                                         *)
(* The Message rows assign_to_ngo and escalate_to_gov add are rows of a    *)
(* table no handler below reads; the receiver of the row is kept with the  *)
(* request that added it.                                                  *)
(***************************************************************************)
EXTENDS Integers, Sequences, FiniteSets, TLC

(* ------------------------------ bounds -------------------------------- *)

\* datetime.utcnow() is modelled by a logical clock that ticks on every
\* read; handlers that read it are disabled once it reaches MaxTime.
MaxTime == 2

\* The PING messages the model lets one websocket send.
MaxPings == 1

\* The range of danger_scale, "# 1-5".
DANGER_MIN == 1
DANGER_MAX == 5

(* --------------------------- value domains ---------------------------- *)

\* A nullable column holds NULL or Some(v).
NULL == << >>
Some(v) == << v >>

\* Primary keys the uuid4 default can hand out, in allocation order.
IncidentIds == << "i1" >>

\* An id that is never a row of the incidents table.
MissingIncidentId == "i9"

\* Rows of the ngos table, and an ngo_id that is not a row.
NGOs == { "ngo1", "ngo2" }
MissingNgoId == "ngo9"

\* IncidentStatus enum values.
REPORTED == "reported"
ASSIGNED_NGO == "assigned_ngo"
EMERGENCY_DISPATCHED == "emergency_dispatched"
NGO_RESPONDING == "ngo_responding"
ESCALATED_GOV == "escalated_gov"
RESOLVED == "resolved"

IncidentStatus ==
    { REPORTED, ASSIGNED_NGO, EMERGENCY_DISPATCHED, NGO_RESPONDING,
      ESCALATED_GOV, RESOLVED }

\* status strings a request body may carry: the six names, one of them in
\* upper case, and a string that is no status.
StatusInputs == IncidentStatus \cup { "RESOLVED", "closed" }

\* IncidentSeverity enum values.
LOW == "low"
MEDIUM == "medium"
HIGH == "high"
CRITICAL == "critical"

IncidentSeverity == { LOW, MEDIUM, HIGH, CRITICAL }

\* severity strings a request body may carry: a level, and a string that is
\* no level.
SeverityInputs == { "critical", "extreme" }

\* resolution notes a request body may carry (Optional[str]).
NotesInputs == { NULL, Some("contained") }

\* incident_details of an escalation request (str, required).
ReasonInputs == { "mass casualty" }

\* danger_scale values a request body may carry (int): the ends of the
\* range and their outer neighbours.
DangerInputs == { DANGER_MIN - 1, DANGER_MIN, DANGER_MAX, DANGER_MAX + 1 }

\* What the VolunteerProfile query of assign_to_ngo and the
\* GovAuthorityAccount query of escalate_to_gov may return: no row, or a row
\* with this user_id.
VolunteerLookups == { NULL, Some("u1") }
GovAuthorityLookups == { NULL, Some("gov1") }

\* The websockets that may connect, in the order they do; each connects
\* once.
ConnIds == << "w1", "w2" >>
Conns == { ConnIds[k] : k \in 1 .. Len(ConnIds) }

\* Channel keys the endpoints build from their paths.
INCIDENT_CHANNEL == "incident:i1"
NGO_CHANNEL == "ngo:ngo1"
GOV_CHANNEL == "gov:gov1"
Channels == { INCIDENT_CHANNEL, NGO_CHANNEL, GOV_CHANNEL }

\* The types of inbound message the endpoints forward.
CITIZEN_UPDATE == "CITIZEN_UPDATE"
ACCEPT_INCIDENT == "ACCEPT_INCIDENT"
UPDATE_TO_CITIZEN == "UPDATE_TO_CITIZEN"
UPDATE_TO_NGO == "UPDATE_TO_NGO"
MessageTypes ==
    { CITIZEN_UPDATE, ACCEPT_INCIDENT, UPDATE_TO_CITIZEN, UPDATE_TO_NGO }

\* user_id query parameters (Query(None)).
UserInputs == { NULL, Some("u1") }

\* The broadcasts that may be issued, in the order they are; a broadcast's
\* message carries its id.
BroadcastSeq == << "b1", "b2" >>
BroadcastIds == { BroadcastSeq[k] : k \in 1 .. Len(BroadcastSeq) }

\* The notifications notify_user may send, in the order it does; a
\* notification's message carries its id.
NotificationSeq == << "n1" >>
NotificationIds == { NotificationSeq[k] : k \in 1 .. Len(NotificationSeq) }

\* The users notify_user may name.
Users == { "u1" }

\* HTTP status codes of the responses.
HTTP_OK == 200
HTTP_BAD_REQUEST == 400
HTTP_NOT_FOUND == 404

(* ------------------------------- state -------------------------------- *)

VARIABLES
    incidents,  \* the incidents table: id -> row, for the ids that exist
    clock,      \* the last value datetime.utcnow() returned
    last,       \* the most recent request served and its response
    prior,      \* the status update served immediately before it, if any
    active_connections, \* ConnectionManager: channel -> list of websockets
    user_connections,   \* ConnectionManager: user id -> set of websockets
    sockets,    \* per websocket: its endpoint coroutine and its peer
    tasks,      \* per broadcast: the broadcast_to_channel coroutine
    user_tasks, \* per notification: the send_to_user coroutine
    received    \* per websocket: the messages send_json delivered to it

incident_vars == << incidents, clock, last, prior >>

manager_vars ==
    << active_connections, user_connections, sockets, tasks, user_tasks,
       received >>

vars == << incidents, clock, last, prior,
           active_connections, user_connections, sockets, tasks, user_tasks,
           received >>

\* NewIncident with the status of an assigned incident.
NewIncident_Assigned(severity) ==
    [ severity |-> severity,
      status |-> ASSIGNED_NGO,
      assigned_ngo_id |-> NULL,
      assigned_at |-> NULL,
      escalated_to_gov |-> FALSE,
      escalation_reason |-> NULL,
      escalated_at |-> NULL,
      danger_scale |-> NULL,
      emergency_dispatched_at |-> NULL,
      ngo_responded_at |-> NULL,
      resolved_at |-> NULL,
      resolution_notes |-> NULL ]

\* The row Incident(...) inserts: status REPORTED, column defaults elsewhere.
NewIncident(severity) ==
    [ severity |-> severity,
      status |-> REPORTED,
      assigned_ngo_id |-> NULL,
      assigned_at |-> NULL,
      escalated_to_gov |-> FALSE,
      escalation_reason |-> NULL,
      escalated_at |-> NULL,
      danger_scale |-> NULL,
      emergency_dispatched_at |-> NULL,
      ngo_responded_at |-> NULL,
      resolved_at |-> NULL,
      resolution_notes |-> NULL ]

NoCall ==
    [ op |-> "none", id |-> "none", arg |-> << >>, pre |-> NULL, code |-> 0,
      message |-> NULL ]

\* A websocket nobody has connected yet.
NewSocket == [ pc |-> "new", channel |-> "none", user_id |-> NULL,
               open |-> FALSE ]

\* A broadcast nobody has issued yet.
NoTask == [ pc |-> "idle", channel |-> "none", by |-> NULL, idx |-> 0,
            disconnected |-> << >>, detached |-> FALSE,
            issued |-> {}, changed |-> FALSE ]

\* A notification nobody has sent yet.  visited is what the set iterator
\* has yielded, used the size of the set when the iterator was made.
NoUserTask ==
    [ pc |-> "idle", user_id |-> "none", visited |-> {}, used |-> 0,
      disconnected |-> << >>, detached |-> FALSE, changed |-> FALSE,
      issued |-> {} ]

Init ==
    /\ incidents = [ i \in {} |-> NewIncident(MEDIUM) ]
    /\ clock = 0
    /\ last = NoCall
    /\ prior = NULL
    /\ active_connections = [ ch \in {} |-> << >> ]
    /\ user_connections = [ u \in {} |-> {} ]
    /\ sockets = [ w \in Conns |-> NewSocket ]
    /\ tasks = [ b \in BroadcastIds |-> NoTask ]
    /\ user_tasks = [ n \in NotificationIds |-> NoUserTask ]
    /\ received = [ w \in Conns |-> << >> ]

\* db.query(Incident).filter(Incident.id == incident_id).first()
Exists(id) == id \in DOMAIN incidents

Snapshot(id) == IF Exists(id) THEN Some(incidents[id]) ELSE NULL

\* str.lower() on the strings of StatusInputs and SeverityInputs.
Lower(s) == IF s = "RESOLVED" THEN "resolved" ELSE s

\* StatusMapGet with a default, as severity_map.get has one.
StatusMapGet_DefaultReported(s) ==
    IF Lower(s) \in IncidentStatus THEN Some(Lower(s)) ELSE Some(REPORTED)

\* update_status: status_map.get(status_update.status.lower())
StatusMapGet(s) == IF Lower(s) \in IncidentStatus THEN Some(Lower(s)) ELSE NULL

\* A served request that was a status update naming a status of the enum on
\* an incident that exists: its incident, target and response code.
AsStatusUpdate(call) ==
    IF call.op = "status" /\ call.pre # NULL /\ StatusMapGet(call.arg[1]) # NULL
    THEN Some([ id |-> call.id, target |-> StatusMapGet(call.arg[1])[1],
                code |-> call.code ])
    ELSE NULL

\* `if volunteer:` / `if gov_authority:` db.add(Message(receiver_id=...)):
\* the receiver of the Message row the handler adds, if its lookup found
\* one.  The messages table is read by no handler of incidents.py; the row
\* is kept with the request that added it.
MessageTo(found) == found

\* The request just served and its response; the row is snapshotted as the
\* handler's query loaded it.
ServedWith(op, id, arg, code, message) ==
    /\ last' = [ op |-> op, id |-> id, arg |-> arg,
                 pre |-> Snapshot(id), code |-> code, message |-> message ]
    /\ prior' = AsStatusUpdate(last)

Served(op, id, arg, code) == ServedWith(op, id, arg, code, NULL)

\* datetime.utcnow(): the value read, and the clock after the read.
utcnow == clock + 1

(* ------------------------- column assignments ------------------------- *)

\* AssignUpdate without `incident.assigned_at = datetime.utcnow()`.
AssignUpdate_NoTimestamp(inc, ngo_id, now) ==
    [ inc EXCEPT !.assigned_ngo_id = Some(ngo_id),
                 !.status = ASSIGNED_NGO ]

\* assign_to_ngo, "# Update incident"
AssignUpdate(inc, ngo_id, now) ==
    [ inc EXCEPT !.assigned_ngo_id = Some(ngo_id),
                 !.assigned_at = Some(now),
                 !.status = ASSIGNED_NGO ]

\* EscalateUpdate that moves only an assigned incident to ESCALATED_GOV.
EscalateUpdate_AssignedOnly(inc, danger, reason, now) ==
    [ inc EXCEPT !.escalated_to_gov = TRUE,
                 !.escalated_at = Some(now),
                 !.danger_scale = Some(danger),
                 !.escalation_reason = Some(reason),
                 !.status = IF inc.assigned_ngo_id = NULL
                            THEN @ ELSE ESCALATED_GOV ]

\* EscalateUpdate without `incident.danger_scale = escalation.danger_scale`.
EscalateUpdate_NoDangerScale(inc, danger, reason, now) ==
    [ inc EXCEPT !.escalated_to_gov = TRUE,
                 !.escalated_at = Some(now),
                 !.escalation_reason = Some(reason),
                 !.status = ESCALATED_GOV ]

\* escalate_to_gov, "# Update incident"
EscalateUpdate(inc, danger, reason, now) ==
    [ inc EXCEPT !.escalated_to_gov = TRUE,
                 !.escalated_at = Some(now),
                 !.danger_scale = Some(danger),
                 !.escalation_reason = Some(reason),
                 !.status = ESCALATED_GOV ]

\* update_status: the milestone column that utcnow() is written to, if any.
StampsTime(new_status) ==
    new_status \in { EMERGENCY_DISPATCHED, NGO_RESPONDING, RESOLVED }

\* update_status, from `incident.status = new_status` to the commit
StatusUpdate(inc, new_status, notes, now) ==
    LET moved == [ inc EXCEPT !.status = new_status ] IN
    CASE new_status = EMERGENCY_DISPATCHED ->
            [ moved EXCEPT !.emergency_dispatched_at = Some(now) ]
      [] new_status = NGO_RESPONDING ->
            [ moved EXCEPT !.ngo_responded_at = Some(now) ]
      [] new_status = RESOLVED ->
            [ moved EXCEPT !.resolved_at = Some(now),
                           !.resolution_notes = notes ]
      [] OTHER -> moved

(* ----------------------------- handlers ------------------------------- *)

\* create_incident: severity_map.get(severity.lower(), IncidentSeverity.MEDIUM)
SeverityMapGet(s) == IF Lower(s) \in IncidentSeverity THEN Lower(s) ELSE MEDIUM

\* POST /api/incidents/ : inserts a row under a fresh primary key.
create_incident(severity) ==
    /\ Cardinality(DOMAIN incidents) < Len(IncidentIds)
    /\ LET id == IncidentIds[Cardinality(DOMAIN incidents) + 1] IN
        /\ incidents' = [ i \in DOMAIN incidents \cup { id } |->
                            IF i = id THEN NewIncident(SeverityMapGet(severity))
                                      ELSE incidents[i] ]
        /\ Served("create", id, << severity >>, HTTP_OK)
    /\ UNCHANGED clock
    /\ UNCHANGED manager_vars

\* assign_to_ngo without the `if not ngo` check.
assign_to_ngo_NoNgoCheck(id, ngo_id, volunteer) ==
    /\ UNCHANGED manager_vars
    /\ IF ~Exists(id) THEN
           /\ Served("assign", id, << ngo_id >>, HTTP_NOT_FOUND)
           /\ UNCHANGED << incidents, clock >>
       ELSE
           /\ clock < MaxTime
           /\ incidents' = [ incidents EXCEPT
                               ![id] = AssignUpdate(@, ngo_id, utcnow) ]
           /\ clock' = utcnow
           /\ ServedWith("assign", id, << ngo_id >>, HTTP_OK,
                         MessageTo(volunteer))

\* PUT /api/incidents/{incident_id}/assign
assign_to_ngo(id, ngo_id, volunteer) ==
    /\ UNCHANGED manager_vars
    /\ IF ~Exists(id) THEN
           /\ Served("assign", id, << ngo_id >>, HTTP_NOT_FOUND)
           /\ UNCHANGED << incidents, clock >>
       ELSE IF ngo_id \notin NGOs THEN
           /\ Served("assign", id, << ngo_id >>, HTTP_NOT_FOUND)
           /\ UNCHANGED << incidents, clock >>
       ELSE
           /\ clock < MaxTime
           /\ incidents' = [ incidents EXCEPT
                               ![id] = AssignUpdate(@, ngo_id, utcnow) ]
           /\ clock' = utcnow
           /\ ServedWith("assign", id, << ngo_id >>, HTTP_OK,
                         MessageTo(volunteer))

\* PUT /api/incidents/{incident_id}/escalate
escalate_to_gov(id, danger, reason, gov_authority) ==
    /\ UNCHANGED manager_vars
    /\ IF ~Exists(id) THEN
           /\ Served("escalate", id, << danger, reason >>, HTTP_NOT_FOUND)
           /\ UNCHANGED << incidents, clock >>
       ELSE
           /\ clock < MaxTime
           /\ incidents' = [ incidents EXCEPT
                               ![id] = EscalateUpdate(@, danger, reason, utcnow) ]
           /\ clock' = utcnow
           /\ ServedWith("escalate", id, << danger, reason >>, HTTP_OK,
                         MessageTo(gov_authority))

\* PUT /api/incidents/{incident_id}/status
update_status(id, status, notes) ==
    /\ UNCHANGED manager_vars
    /\ IF ~Exists(id) THEN
           /\ Served("status", id, << status, notes >>, HTTP_NOT_FOUND)
           /\ UNCHANGED << incidents, clock >>
       ELSE IF StatusMapGet(status) = NULL THEN
           /\ Served("status", id, << status, notes >>, HTTP_BAD_REQUEST)
           /\ UNCHANGED << incidents, clock >>
       ELSE
           LET new_status == StatusMapGet(status)[1] IN
           /\ StampsTime(new_status) => clock < MaxTime
           /\ incidents' = [ incidents EXCEPT
                               ![id] = StatusUpdate(@, new_status, notes, utcnow) ]
           /\ clock' = IF StampsTime(new_status) THEN utcnow ELSE clock
           /\ Served("status", id, << status, notes >>, HTTP_OK)

\* The ids a request path may name.
RequestIds == { IncidentIds[k] : k \in 1 .. Len(IncidentIds) }
                  \cup { MissingIncidentId }

Next ==
    \/ \E severity \in SeverityInputs : create_incident(severity)
    \/ \E id \in RequestIds, ngo_id \in NGOs \cup { MissingNgoId },
          volunteer \in VolunteerLookups :
            assign_to_ngo(id, ngo_id, volunteer)
    \/ \E id \in RequestIds, danger \in DangerInputs,
          reason \in ReasonInputs, gov_authority \in GovAuthorityLookups :
            escalate_to_gov(id, danger, reason, gov_authority)
    \/ \E id \in RequestIds, status \in StatusInputs,
          notes \in NotesInputs :
            update_status(id, status, notes)

Spec == Init /\ [][Next]_vars

(* ========================= ConnectionManager =========================== *)

\* `x in list`
Contains(list, x) == \E k \in 1 .. Len(list) : list[k] = x

\* list.remove(x) for a list that contains x: drops the first occurrence.
Remove(list, x) ==
    LET first == CHOOSE k \in 1 .. Len(list) :
                    list[k] = x /\ \A j \in 1 .. k - 1 : list[j] # x
    IN [ k \in 1 .. Len(list) - 1 |->
            IF k < first THEN list[k] ELSE list[k + 1] ]

\* dict with key k set to v, and dict without key k.
Put(dict, k, v) ==
    [ x \in DOMAIN dict \cup { k } |-> IF x = k THEN v ELSE dict[x] ]
Del(dict, k) == [ x \in DOMAIN dict \ { k } |-> dict[x] ]

\* connect: the channel map after `active_connections[channel].append`.
ConnectChannel(ac, w, ch) ==
    IF ch \in DOMAIN ac THEN [ ac EXCEPT ![ch] = Append(@, w) ]
                         ELSE Put(ac, ch, << w >>)

\* connect: the user index after `user_connections[user_id].add`.
ConnectUser(uc, w, user_id) ==
    IF user_id = NULL THEN uc
    ELSE IF user_id[1] \in DOMAIN uc
         THEN [ uc EXCEPT ![user_id[1]] = @ \cup { w } ]
         ELSE Put(uc, user_id[1], { w })

\* DisconnectChannel testing for the empty list before the removal.
DisconnectChannel_EmptyCheckFirst(ac, w, ch) ==
    IF ch \notin DOMAIN ac THEN ac
    ELSE IF ac[ch] = << >> THEN Del(ac, ch)
    ELSE IF Contains(ac[ch], w) THEN [ ac EXCEPT ![ch] = Remove(@, w) ]
    ELSE ac

\* disconnect: the channel map after the `if channel in ...` block.
DisconnectChannel(ac, w, ch) ==
    IF ch \notin DOMAIN ac THEN ac
    ELSE LET list == IF Contains(ac[ch], w) THEN Remove(ac[ch], w)
                                            ELSE ac[ch]
         IN IF list = << >> THEN Del(ac, ch)
                            ELSE [ ac EXCEPT ![ch] = list ]

\* disconnect: the user index after the `if user_id and ...` block.
DisconnectUser(uc, w, user_id) ==
    IF user_id = NULL \/ user_id[1] \notin DOMAIN uc THEN uc
    ELSE LET set == uc[user_id[1]] \ { w }
         IN IF set = {} THEN Del(uc, user_id[1])
                        ELSE [ uc EXCEPT ![user_id[1]] = set ]

\* The list object a broadcast's `for` loop iterates.  The loop keeps the
\* object it started on; once disconnect has deleted the channel entry that
\* object is empty and no longer the map's, whatever the map holds later.
Iterated(t, ac) == IF t.detached THEN << >> ELSE ac[t.channel]

\* Broadcasts in their loop over ch see its list change, and lose the list
\* to the map if the entry was deleted.
Touch(ts, ch, ac_after) ==
    [ b \in DOMAIN ts |->
        IF ts[b].pc = "sending" /\ ts[b].channel = ch /\ ~ts[b].detached
        THEN [ ts[b] EXCEPT !.changed = TRUE,
                            !.detached = ch \notin DOMAIN ac_after ]
        ELSE ts[b] ]

\* broadcast_to_channel, "# Clean up disconnected": the channel map after
\* the removals, and the exception that ended them, if any.
RECURSIVE CleanUp(_, _, _)
CleanUp(disconnected, ac, ch) ==
    IF disconnected = << >> THEN [ ac |-> ac, error |-> NULL ]
    ELSE IF ch \notin DOMAIN ac THEN [ ac |-> ac, error |-> Some("KeyError") ]
    ELSE IF ~Contains(ac[ch], Head(disconnected))
         THEN [ ac |-> ac, error |-> Some("ValueError") ]
    ELSE CleanUp(Tail(disconnected),
                 [ ac EXCEPT ![ch] = Remove(@, Head(disconnected)) ], ch)

\* broadcast_to_channel from one await to the next: the loop takes the next
\* connection of the list and sends to it, or finds the list exhausted and
\* cleans up.  socks is the socket table as the caller leaves it.
Resume(b, t, socks) ==
    LET list == Iterated(t, active_connections) IN
    IF t.idx < Len(list) THEN
        LET conn == list[t.idx + 1] IN
        /\ tasks' = [ tasks EXCEPT ![b] =
                [ t EXCEPT !.pc = "sending",
                           !.idx = @ + 1,
                           !.disconnected = IF socks[conn].open
                                            THEN @ ELSE Append(@, conn) ] ]
        /\ received' = IF socks[conn].open
                       THEN [ received EXCEPT ![conn] = Append(@, b) ]
                       ELSE received
        /\ sockets' = socks
        /\ UNCHANGED active_connections
    ELSE
        LET done == CleanUp(t.disconnected, active_connections, t.channel) IN
        /\ active_connections' = done.ac
        /\ tasks' = [ (IF done.ac = active_connections THEN tasks
                        ELSE Touch(tasks, t.channel, done.ac)) EXCEPT ![b] =
                [ t EXCEPT !.pc = IF done.error = NULL THEN "returned"
                                                       ELSE "raised" ] ]
        /\ sockets' =
              IF t.by = NULL THEN socks
              ELSE IF done.error = NULL
                   THEN [ socks EXCEPT ![t.by[1].conn].pc = "receiving" ]
                   ELSE [ socks EXCEPT ![t.by[1].conn].pc = "crashed",
                                       ![t.by[1].conn].open = FALSE ]
        /\ UNCHANGED received

\* Issue creating the entry of a channel that has none.
Issue_CreatesEntry(b, ch, by, socks) ==
    IF ch \notin DOMAIN active_connections THEN
        /\ tasks' = [ tasks EXCEPT ![b] =
                [ NoTask EXCEPT !.pc = "returned", !.channel = ch, !.by = by ] ]
        /\ sockets' = IF by = NULL THEN socks
                      ELSE [ socks EXCEPT ![by[1].conn].pc = "receiving" ]
        /\ active_connections' = Put(active_connections, ch, << >>)
        /\ UNCHANGED received
    ELSE
        Resume(b, [ NoTask EXCEPT !.pc = "sending", !.channel = ch, !.by = by,
                        !.issued = { active_connections[ch][k] :
                                        k \in 1 .. Len(active_connections[ch]) } ],
               socks)

\* broadcast_to_channel, from the call to its first await or its return.
Issue(b, ch, by, socks) ==
    IF ch \notin DOMAIN active_connections THEN
        /\ tasks' = [ tasks EXCEPT ![b] =
                [ NoTask EXCEPT !.pc = "returned", !.channel = ch, !.by = by ] ]
        /\ sockets' = IF by = NULL THEN socks
                      ELSE [ socks EXCEPT ![by[1].conn].pc = "receiving" ]
        /\ UNCHANGED << active_connections, received >>
    ELSE
        Resume(b, [ NoTask EXCEPT !.pc = "sending", !.channel = ch, !.by = by,
                        !.issued = { active_connections[ch][k] :
                                        k \in 1 .. Len(active_connections[ch]) } ],
               socks)

(* ------------------------------ send_to_user --------------------------- *)

\* Notifications in their loop over a user's set see the set change, and
\* lose the set to the index if the entry was deleted.
TouchUser(uts, user_id, uc_after) ==
    [ n \in DOMAIN uts |->
        IF uts[n].pc = "sending" /\ uts[n].user_id = user_id
                                /\ ~uts[n].detached
        THEN [ uts[n] EXCEPT !.changed = TRUE,
                             !.detached = user_id \notin DOMAIN uc_after ]
        ELSE uts[n] ]

\* The set object a notification's `for` loop iterates.  disconnect empties
\* it before it deletes the entry, and the loop keeps the emptied object.
IteratedSet(t, uc) == IF t.detached THEN {} ELSE uc[t.user_id]

\* send_to_user, the loop over disconnected: the user index after the
\* discards, and the exception that ended them, if any.
DiscardAll(disconnected, uc, user_id) ==
    IF disconnected = << >> THEN [ uc |-> uc, error |-> NULL ]
    ELSE IF user_id \notin DOMAIN uc
         THEN [ uc |-> uc, error |-> Some("KeyError") ]
    ELSE [ uc |-> [ uc EXCEPT ![user_id] =
                        @ \ { disconnected[k] : k \in 1 .. Len(disconnected) } ],
           error |-> NULL ]

\* send_to_user from one await to the next.  The set iterator raises
\* RuntimeError when the set's size is not the size it started with; on a
\* set of that size whose elements changed it may yield any element it has
\* not yielded or stop; otherwise it yields an element not yet yielded, and
\* stops when there is none.
ResumeUser(n, t) ==
    LET set == IteratedSet(t, user_connections) IN
    IF Cardinality(set) # t.used THEN
        /\ user_tasks' = [ user_tasks EXCEPT ![n] = [ t EXCEPT !.pc = "raised" ] ]
        /\ UNCHANGED << user_connections, received >>
    ELSE
        \/ \E conn \in set \ t.visited :
                /\ user_tasks' = [ user_tasks EXCEPT ![n] =
                        [ t EXCEPT !.pc = "sending",
                                   !.visited = @ \cup { conn },
                                   !.disconnected = IF sockets[conn].open
                                                    THEN @ ELSE Append(@, conn) ] ]
                /\ received' = IF sockets[conn].open
                               THEN [ received EXCEPT ![conn] = Append(@, n) ]
                               ELSE received
                /\ UNCHANGED user_connections
        \/ /\ set \ t.visited = {} \/ t.changed
           /\ LET done == DiscardAll(t.disconnected, user_connections,
                                     t.user_id) IN
                /\ user_connections' = done.uc
                /\ user_tasks' =
                      [ (IF done.uc = user_connections THEN user_tasks
                         ELSE TouchUser(user_tasks, t.user_id, done.uc))
                        EXCEPT ![n] =
                            [ t EXCEPT !.pc = IF done.error = NULL
                                              THEN "returned" ELSE "raised" ] ]
           /\ UNCHANGED received

\* send_to_user, from the call to its first await or its return.
IssueUser(n, user_id) ==
    IF user_id \notin DOMAIN user_connections THEN
        /\ user_tasks' = [ user_tasks EXCEPT ![n] =
                [ NoUserTask EXCEPT !.pc = "returned", !.user_id = user_id ] ]
        /\ UNCHANGED << user_connections, received >>
    ELSE
        ResumeUser(n, [ NoUserTask EXCEPT
                            !.pc = "sending", !.user_id = user_id,
                            !.used = Cardinality(user_connections[user_id]),
                            !.issued = user_connections[user_id] ])

(* --------------------------- endpoint coroutines ----------------------- *)

\* The next websocket to connect and the next broadcast to be issued.
NextConn(w) ==
    \E k \in 1 .. Len(ConnIds) :
        /\ w = ConnIds[k]
        /\ \A j \in 1 .. k - 1 : sockets[ConnIds[j]].pc # "new"
NextBroadcast(b) ==
    \E k \in 1 .. Len(BroadcastSeq) :
        /\ b = BroadcastSeq[k]
        /\ \A j \in 1 .. k - 1 : tasks[BroadcastSeq[j]].pc # "idle"

\* The message types the `elif` chain of a channel's endpoint forwards.
Handles(ch) ==
    CASE ch = INCIDENT_CHANNEL -> { CITIZEN_UPDATE }
      [] ch = NGO_CHANNEL -> { ACCEPT_INCIDENT, UPDATE_TO_CITIZEN }
      [] ch = GOV_CHANNEL -> { UPDATE_TO_NGO }

\* Target with every message forwarded to the endpoint's own channel.
Target_OwnChannel(ch, type) == ch

\* The channel an endpoint on channel ch broadcasts a message of this type
\* to: its own, or the one built from the incident_id or ngo_id the message
\* names.
Target(ch, type) ==
    CASE type = UPDATE_TO_CITIZEN -> INCIDENT_CHANNEL
      [] type = UPDATE_TO_NGO -> NGO_CHANNEL
      [] OTHER -> ch

\* The sender the forwarded message names: the ngo_id of the path for an
\* UPDATE_TO_CITIZEN (from_ngo), else the user_id query parameter
\* (from_user, accepted_by, from_gov), None when the client gave none.
Tag(w, type) ==
    IF type = UPDATE_TO_CITIZEN THEN Some("ngo1") ELSE sockets[w].user_id

\* An endpoint is called: manager.connect, then the CONNECTED message.
websocket_connect(w, ch, user_id) ==
    /\ sockets[w].pc = "new"
    /\ NextConn(w)
    /\ active_connections' = ConnectChannel(active_connections, w, ch)
    /\ user_connections' = ConnectUser(user_connections, w, user_id)
    /\ sockets' = [ sockets EXCEPT ![w] =
            [ pc |-> "receiving", channel |-> ch, user_id |-> user_id,
              open |-> TRUE ] ]
    /\ received' = [ received EXCEPT ![w] = Append(@, "CONNECTED") ]
    /\ tasks' = Touch(tasks, ch, active_connections')
    /\ user_tasks' = IF user_id = NULL THEN user_tasks
                     ELSE TouchUser(user_tasks, user_id[1], user_connections')
    /\ UNCHANGED incident_vars

\* The remote peer closes its end of the websocket.
peer_close(w) ==
    /\ sockets[w].pc \in { "receiving", "broadcasting" }
    /\ sockets[w].open
    /\ sockets' = [ sockets EXCEPT ![w].open = FALSE ]
    /\ UNCHANGED << active_connections, user_connections, tasks, user_tasks,
                    received >>
    /\ UNCHANGED incident_vars

\* receive_json raises WebSocketDisconnect: manager.disconnect.
websocket_disconnect(w) ==
    /\ sockets[w].pc = "receiving"
    /\ ~sockets[w].open
    /\ active_connections' =
            DisconnectChannel(active_connections, w, sockets[w].channel)
    /\ user_connections' =
            DisconnectUser(user_connections, w, sockets[w].user_id)
    /\ sockets' = [ sockets EXCEPT ![w].pc = "closed" ]
    /\ tasks' = IF active_connections' = active_connections THEN tasks
                ELSE Touch(tasks, sockets[w].channel, active_connections')
    /\ user_tasks' = IF user_connections' = user_connections THEN user_tasks
                     ELSE TouchUser(user_tasks, sockets[w].user_id[1],
                                    user_connections')
    /\ UNCHANGED received
    /\ UNCHANGED incident_vars

\* receive_json or data.get raises on a frame that is no JSON object: no
\* except clause matches, the coroutine ends and the server closes the
\* websocket.
websocket_error(w) ==
    /\ sockets[w].pc = "receiving"
    /\ sockets[w].open
    /\ sockets' = [ sockets EXCEPT ![w].pc = "crashed", ![w].open = FALSE ]
    /\ UNCHANGED << active_connections, user_connections, tasks, user_tasks,
                    received >>
    /\ UNCHANGED incident_vars

\* An inbound domain message: the endpoint awaits broadcast_to_channel.
websocket_forward(w, b, type) ==
    /\ sockets[w].pc = "receiving"
    /\ sockets[w].open
    /\ tasks[b].pc = "idle"
    /\ NextBroadcast(b)
    /\ type \in Handles(sockets[w].channel)
    /\ Issue(b, Target(sockets[w].channel, type),
             Some([ conn |-> w, type |-> type, tag |-> Tag(w, type) ]),
             [ sockets EXCEPT ![w].pc = "broadcasting" ])
    /\ UNCHANGED << user_connections, user_tasks >>
    /\ UNCHANGED incident_vars

\* notify_incident_update: a broadcast to the incident's channel.
notify_incident_update(b) ==
    /\ tasks[b].pc = "idle"
    /\ NextBroadcast(b)
    /\ Issue(b, INCIDENT_CHANNEL, NULL, sockets)
    /\ UNCHANGED << user_connections, user_tasks >>
    /\ UNCHANGED incident_vars

\* A suspended broadcast_to_channel is resumed after its await.
broadcast_to_channel(b) ==
    /\ tasks[b].pc = "sending"
    /\ Resume(b, tasks[b], sockets)
    /\ UNCHANGED << user_connections, user_tasks >>
    /\ UNCHANGED incident_vars

\* The next notification to be sent.
NextNotification(n) ==
    \E k \in 1 .. Len(NotificationSeq) :
        /\ n = NotificationSeq[k]
        /\ \A j \in 1 .. k - 1 : user_tasks[NotificationSeq[j]].pc # "idle"

\* The PONG replies websocket w has been sent.
Pongs(w) ==
    Cardinality({ k \in 1 .. Len(received[w]) : received[w][k] = "PONG" })

\* websocket_ping sending the PONG to the sender's channel.
websocket_ping_ToChannel(w) ==
    /\ sockets[w].pc = "receiving"
    /\ sockets[w].open
    /\ Pongs(w) < MaxPings
    /\ received' = [ v \in Conns |->
            IF sockets[w].channel \in DOMAIN active_connections
               /\ Contains(active_connections[sockets[w].channel], v)
            THEN Append(received[v], "PONG") ELSE received[v] ]
    /\ UNCHANGED << active_connections, user_connections, sockets, tasks,
                    user_tasks >>
    /\ UNCHANGED incident_vars

\* An inbound PING: send_personal_message of a PONG to the sender.
websocket_ping(w) ==
    /\ sockets[w].pc = "receiving"
    /\ sockets[w].open
    /\ Pongs(w) < MaxPings
    /\ received' = [ received EXCEPT ![w] = Append(@, "PONG") ]
    /\ UNCHANGED << active_connections, user_connections, sockets, tasks,
                    user_tasks >>
    /\ UNCHANGED incident_vars

\* notify_user: send_to_user of a notification.
notify_user(n, user_id) ==
    /\ user_tasks[n].pc = "idle"
    /\ NextNotification(n)
    /\ IssueUser(n, user_id)
    /\ UNCHANGED << active_connections, sockets, tasks >>
    /\ UNCHANGED incident_vars

\* A suspended send_to_user is resumed after its await.
send_to_user(n) ==
    /\ user_tasks[n].pc = "sending"
    /\ ResumeUser(n, user_tasks[n])
    /\ UNCHANGED << active_connections, sockets, tasks >>
    /\ UNCHANGED incident_vars

NextWs ==
    \/ \E w \in Conns, ch \in Channels, user_id \in UserInputs :
            websocket_connect(w, ch, user_id)
    \/ \E w \in Conns : peer_close(w)
    \/ \E w \in Conns : websocket_disconnect(w)
    \/ \E w \in Conns : websocket_error(w)
    \/ \E w \in Conns, b \in BroadcastIds, type \in MessageTypes :
            websocket_forward(w, b, type)
    \/ \E b \in BroadcastIds : notify_incident_update(b)
    \/ \E b \in BroadcastIds : broadcast_to_channel(b)

SpecWs == Init /\ [][NextWs]_vars

\* The endpoints with PING and the notifications of a user, without
\* broadcasts.
NextUser ==
    \/ \E w \in Conns, ch \in Channels, user_id \in UserInputs :
            websocket_connect(w, ch, user_id)
    \/ \E w \in Conns : peer_close(w)
    \/ \E w \in Conns : websocket_disconnect(w)
    \/ \E w \in Conns : websocket_error(w)
    \/ \E w \in Conns : websocket_ping(w)
    \/ \E n \in NotificationIds, user_id \in Users : notify_user(n, user_id)
    \/ \E n \in NotificationIds : send_to_user(n)

SpecUser == Init /\ [][NextUser]_vars

(* ======================= properties of the handlers ==================== *)

\* The request last served found its incident.
Found == last.pre # NULL

\* The row as the last request's handler loaded it, and as it is now.
Pre == last.pre[1]
Post == incidents[last.id]

\* The last request was answered with an error (InvalidTransition,
\* ValidationError and NotFound are all error responses).
Rejected == last.code # HTTP_OK
Succeeded == last.code = HTTP_OK

IsSet(column) == column # NULL

\* The lifecycle order REPORTED < ASSIGNED_NGO < ... < RESOLVED.
Rank(st) ==
    CASE st = REPORTED -> 0
      [] st = ASSIGNED_NGO -> 1
      [] st = EMERGENCY_DISPATCHED -> 2
      [] st = NGO_RESPONDING -> 3
      [] st = ESCALATED_GOV -> 4
      [] st = RESOLVED -> 5

EscalationUnchanged ==
    /\ Post.status = Pre.status
    /\ Post.escalated_to_gov = Pre.escalated_to_gov
    /\ Post.escalated_at = Pre.escalated_at
    /\ Post.danger_scale = Pre.danger_scale
    /\ Post.escalation_reason = Pre.escalation_reason

\* C1: a status update on an incident whose status is RESOLVED fails,
\* whatever the target status, and the status stays RESOLVED.
C1_ResolvedRejectsStatusUpdate ==
    (last.op = "status" /\ Found /\ Pre.status = RESOLVED)
        => (Rejected /\ Post.status = RESOLVED)

\* C2: of two status updates with conflicting targets that race on one
\* incident (served back to back, in either order), exactly one succeeds,
\* the other is rejected, and the persisted status is the winner's target.
C2_RaceHasOneWinner ==
    LET first == prior[1]
        second == AsStatusUpdate(last)[1]
    IN (/\ prior # NULL
        /\ AsStatusUpdate(last) # NULL
        /\ first.id = second.id
        /\ first.target # second.target)
        => /\ (first.code = HTTP_OK) # (second.code = HTTP_OK)
           /\ first.code = HTTP_OK => incidents[first.id].status = first.target
           /\ second.code = HTTP_OK => incidents[first.id].status = second.target

\* C3: in every incident, assigned_at is set exactly when assigned_ngo_id is.
C3_AssignedAtIffAssignedNgo ==
    \A id \in DOMAIN incidents :
        IsSet(incidents[id].assigned_at) <=> IsSet(incidents[id].assigned_ngo_id)

\* An assignment has been made and a later request has been served.
C3_Witness ==
    /\ last.op \in { "status", "escalate" }
    /\ Found /\ Succeeded
    /\ IsSet(Post.assigned_ngo_id)
    /\ IsSet(Post.assigned_at)

\* C4: assign on an incident whose status is not REPORTED fails and leaves
\* assigned_ngo_id, assigned_at and status as they were.
C4_AssignOnlyFromReported ==
    (last.op = "assign" /\ Found /\ Pre.status # REPORTED)
        => /\ Rejected
           /\ Post.assigned_ngo_id = Pre.assigned_ngo_id
           /\ Post.assigned_at = Pre.assigned_at
           /\ Post.status = Pre.status

\* C5: in every incident, resolved_at is set exactly when the status is
\* RESOLVED.
C5_ResolvedAtIffResolved ==
    \A id \in DOMAIN incidents :
        IsSet(incidents[id].resolved_at) <=> incidents[id].status = RESOLVED

\* C6: a status update is accepted only if it does not move the incident
\* backwards in the lifecycle order, or targets ESCALATED_GOV or RESOLVED,
\* and only from a status other than RESOLVED; a rejected update leaves the
\* status as it was.
C6_StatusMovesForward ==
    (last.op = "status" /\ Found /\ StatusMapGet(last.arg[1]) # NULL)
        => LET target == StatusMapGet(last.arg[1])[1] IN
           IF /\ Pre.status # RESOLVED
              /\ \/ Rank(target) >= Rank(Pre.status)
                 \/ target \in { ESCALATED_GOV, RESOLVED }
           THEN Rejected => Post.status = Pre.status
           ELSE Rejected /\ Post.status = Pre.status

\* C7: escalate on an incident whose status is RESOLVED fails and leaves
\* status, escalated_to_gov, escalated_at, danger_scale and
\* escalation_reason as they were.
C7_ResolvedRejectsEscalate ==
    (last.op = "escalate" /\ Found /\ Pre.status = RESOLVED)
        => (Rejected /\ EscalationUnchanged)

\* C8: escalate with a danger_scale in 1..5 on an incident whose status is
\* not RESOLVED succeeds and leaves it ESCALATED_GOV with escalated_to_gov
\* true and escalated_at set to the time of the call.
C8_EscalateFromNonTerminal ==
    (/\ last.op = "escalate" /\ Found
     /\ Pre.status # RESOLVED
     /\ last.arg[1] \in DANGER_MIN .. DANGER_MAX)
        => /\ Succeeded
           /\ Post.status = ESCALATED_GOV
           /\ Post.escalated_to_gov = TRUE
           /\ Post.escalated_at = Some(clock)

\* An incident that was never assigned has just been escalated from REPORTED.
C8_Witness ==
    /\ last.op = "escalate" /\ Found /\ Succeeded
    /\ Pre.status = REPORTED
    /\ ~IsSet(Pre.assigned_ngo_id)
    /\ last.arg[1] \in DANGER_MIN .. DANGER_MAX
    /\ Post.status = ESCALATED_GOV

\* C9: escalate with a danger_scale outside 1..5 fails and leaves status,
\* escalated_to_gov, danger_scale, escalated_at and escalation_reason as
\* they were.
C9_DangerScaleValidated ==
    (/\ last.op = "escalate" /\ Found
     /\ last.arg[1] \notin DANGER_MIN .. DANGER_MAX)
        => (Rejected /\ EscalationUnchanged)

\* C10: in every incident, each of escalated_at, danger_scale and
\* escalation_reason is set exactly when escalated_to_gov is true.
C10_EscalationColumnsIffFlag ==
    \A id \in DOMAIN incidents :
        LET inc == incidents[id] IN
        /\ IsSet(inc.escalated_at) <=> inc.escalated_to_gov
        /\ IsSet(inc.danger_scale) <=> inc.escalated_to_gov
        /\ IsSet(inc.escalation_reason) <=> inc.escalated_to_gov

\* An escalated incident after a later status update, next to the case of an
\* incident that was never escalated.
C10_Witness ==
    /\ last.op = "status" /\ Found /\ Succeeded
    /\ Post.escalated_to_gov = TRUE
    /\ IsSet(Post.danger_scale)
    /\ Post.status # ESCALATED_GOV

\* C11: create with a severity string that is none of low, medium, high,
\* critical fails and inserts no incident.
C11_SeverityValidated ==
    (last.op = "create" /\ Lower(last.arg[1]) \notin IncidentSeverity)
        => (Rejected /\ last.id \notin DOMAIN incidents)

\* C12: the incident a successful create inserts has status REPORTED, no
\* assigned NGO and no milestone timestamp.
C12_CreateStartsReported ==
    (last.op = "create" /\ Succeeded)
        => /\ last.id \in DOMAIN incidents
           /\ Post.status = REPORTED
           /\ Post.assigned_ngo_id = NULL
           /\ Post.assigned_at = NULL
           /\ Post.emergency_dispatched_at = NULL
           /\ Post.ngo_responded_at = NULL
           /\ Post.escalated_at = NULL
           /\ Post.resolved_at = NULL

\* An incident has just been created with a recognised severity.
C12_Witness ==
    /\ last.op = "create" /\ Succeeded
    /\ last.arg[1] \in IncidentSeverity
    /\ last.id \in DOMAIN incidents

\* C13: a status update whose status string is none of the six statuses is
\* answered with 400 and leaves every column of the incident as it was.
C13_UnknownStatusRejected ==
    (last.op = "status" /\ Found /\ Lower(last.arg[1]) \notin IncidentStatus)
        => (last.code = HTTP_BAD_REQUEST /\ Post = Pre)

\* An unrecognised status string has just been sent for an incident that
\* has left REPORTED.
C13_Witness ==
    /\ last.op = "status" /\ Found
    /\ last.arg[1] = "closed"
    /\ Pre.status # REPORTED
    /\ Rejected

\* The request served by a step names an incident that is not in the table,
\* or is an assign naming an NGO that is not in the ngos table.
NamesMissingRow ==
    \/ last'.op \in { "assign", "escalate", "status" } /\ ~Exists(last'.id)
    \/ last'.op = "assign" /\ last'.arg[1] \notin NGOs

\* C14: assign, escalate and status update on an incident id that does not
\* exist, and assign naming an NGO that does not exist, are answered with
\* 404 and change no incident.
C14_MissingRowIsNotFound ==
    [][ NamesMissingRow
          => (last'.code = HTTP_NOT_FOUND /\ incidents' = incidents) ]_vars

\* An assign naming a missing NGO has just been answered for an incident
\* that exists.
C14_Witness ==
    /\ last.op = "assign" /\ Found
    /\ last.arg[1] = MissingNgoId
    /\ last.code = HTTP_NOT_FOUND

(* ==================== properties of the ConnectionManager ============== *)

\* The number of times message m was delivered to a websocket with log.
Count(m, log) == Cardinality({ k \in 1 .. Len(log) : log[k] = m })

\* Websocket w is in the subscriber list of channel ch.
Subscribed(w, ch) ==
    ch \in DOMAIN active_connections /\ Contains(active_connections[ch], w)

\* Broadcast b has returned to its caller or raised into it.
Finished(b) == tasks[b].pc \in { "returned", "raised" }

\* The websockets a send of broadcast b failed on.
Failed(b) ==
    { tasks[b].disconnected[k] : k \in 1 .. Len(tasks[b].disconnected) }

\* The websockets that were subscribed when b was issued, are subscribed
\* still and have a live peer.
Remaining(b) ==
    { w \in tasks[b].issued :
        sockets[w].open /\ Subscribed(w, tasks[b].channel) }

\* C15: a broadcast to a channel delivers its message exactly once to a
\* connection that subscribed to the channel before it, and once a
\* connection has unsubscribed nothing more is delivered to it.
C15_RoundTrip ==
    /\ [](\A b \in BroadcastIds :
            Finished(b) =>
                \A w \in Remaining(b) : Count(b, received[w]) = 1)
    /\ [][ \A w \in Conns :
            sockets[w].pc = "closed" => received'[w] = received[w] ]_vars

\* C16: a broadcast whose channel gained or lost subscribers while it was
\* delivering still delivers exactly once to every connection that was
\* subscribed when it was issued and remains subscribed: none is skipped.
C16_NoSubscriberSkipped ==
    \A b \in BroadcastIds :
        (Finished(b) /\ tasks[b].changed) =>
            \A w \in Remaining(b) : Count(b, received[w]) = 1

\* C17: a websocket whose endpoint coroutine has ended, for whatever
\* reason, is in no channel's list and in no user's set.
C17_NoLeakedRegistration ==
    \A w \in Conns :
        sockets[w].pc \in { "closed", "crashed" } =>
            /\ \A ch \in DOMAIN active_connections : ~Subscribed(w, ch)
            /\ \A u \in DOMAIN user_connections : w \notin user_connections[u]

\* C18: every channel key of the channel map has at least one subscriber.
C18_NoEmptyChannel ==
    \A ch \in DOMAIN active_connections : Len(active_connections[ch]) >= 1

\* C19: a broadcast in which some sends failed returns normally, has
\* delivered to every other subscriber, and leaves no failed connection in
\* the channel's list.
C19_FailuresArePruned ==
    \A b \in BroadcastIds :
        (Finished(b) /\ Failed(b) # {}) =>
            /\ tasks[b].pc = "returned"
            /\ \A w \in Failed(b) : ~Subscribed(w, tasks[b].channel)
            /\ \A w \in Remaining(b) \ Failed(b) : Count(b, received[w]) = 1

\* C20: no broadcast raises an exception into its caller.
C20_BroadcastNeverRaises ==
    \A b \in BroadcastIds : tasks[b].pc # "raised"

\* Message a was delivered to the websocket with log after message b.
After(a, b, log) ==
    \E i \in 1 .. Len(log), j \in 1 .. Len(log) :
        i < j /\ log[i] = b /\ log[j] = a

\* C21: of two broadcasts to one channel, no websocket receives the one
\* issued later before the one issued earlier, also when their deliveries
\* interleave.
C21_FifoWithinChannel ==
    \A i \in 1 .. Len(BroadcastSeq), j \in 1 .. Len(BroadcastSeq) :
        (i < j /\ tasks[BroadcastSeq[i]].channel = tasks[BroadcastSeq[j]].channel)
            => \A w \in Conns :
                    ~After(BroadcastSeq[i], BroadcastSeq[j], received[w])

\* C22: a second disconnect of the same websocket from the same channel and
\* user id, right after the first, leaves the channel map and the user
\* index as the first left them.
C22_UnsubscribeIdempotent ==
    [][ \A w \in Conns :
            (sockets[w].pc = "receiving" /\ sockets'[w].pc = "closed") =>
                /\ DisconnectChannel(active_connections', w,
                                     sockets[w].channel) = active_connections'
                /\ DisconnectUser(user_connections', w,
                                  sockets[w].user_id) = user_connections'
      ]_vars

\* A websocket with a user id has disconnected from a channel that keeps
\* another subscriber.
C22_Witness ==
    \E w \in Conns :
        /\ sockets[w].pc = "closed"
        /\ sockets[w].user_id # NULL
        /\ sockets[w].channel \in DOMAIN active_connections
        /\ active_connections[sockets[w].channel] # << >>

\* C28: an incident whose status is ESCALATED_GOV has escalated_to_gov set
\* and with it escalated_at, danger_scale and escalation_reason, whichever
\* handler gave it that status.
C28_EscalatedStatusHasFlag ==
    \A id \in DOMAIN incidents :
        incidents[id].status = ESCALATED_GOV =>
            /\ incidents[id].escalated_to_gov
            /\ IsSet(incidents[id].escalated_at)
            /\ IsSet(incidents[id].danger_scale)
            /\ IsSet(incidents[id].escalation_reason)

\* C29: every websocket held in the user index is in the list of at least
\* one channel.
C29_UserIndexWithinChannels ==
    \A u \in DOMAIN user_connections :
        \A w \in user_connections[u] :
            \E ch \in DOMAIN active_connections : Subscribed(w, ch)

\* Broadcast b took a step: it was issued, sent, or cleaned up.
Stepped(b) ==
    tasks'[b].pc # tasks[b].pc \/ tasks'[b].idx # tasks[b].idx

\* C30: a step of a broadcast to channel C delivers its message to
\* websockets in the list of C only, creates no channel entry, and leaves
\* the list of every other channel as it was.
C30_BroadcastStaysInChannel ==
    [][ \A b \in BroadcastIds :
            Stepped(b) =>
                /\ \A w \in Conns :
                        received'[w] # received[w] =>
                            /\ Subscribed(w, tasks'[b].channel)
                            /\ received'[w] = Append(received[w], b)
                /\ DOMAIN active_connections' = DOMAIN active_connections
                /\ \A ch \in DOMAIN active_connections :
                        ch # tasks'[b].channel =>
                            active_connections'[ch] = active_connections[ch]
      ]_vars

\* A broadcast to one channel has delivered to its subscriber while a
\* websocket subscribed to the other channel received nothing of it, and a
\* broadcast to a channel without entry has returned.
C30_Witness ==
    \E b \in BroadcastIds, v \in Conns, w \in Conns :
        /\ Finished(b)
        /\ Count(b, received[v]) = 1
        /\ sockets[w].pc = "receiving"
        /\ sockets[w].channel # tasks[b].channel
        /\ Count(b, received[w]) = 0

\* The channel keys of user_websocket and gov_websocket.
UserChannel(user_id) == "user:" \o user_id
GovChannel(jurisdiction) == "gov:" \o jurisdiction

\* A broadcast to channel ch is issued in this step.
Notified(ch) ==
    \E b \in BroadcastIds :
        /\ tasks[b].pc = "idle"
        /\ tasks'[b].pc # "idle"
        /\ tasks'[b].channel = ch

\* C24: a successful assign issues a broadcast to the incident's channel
\* and one to the personal channel of the responder's user.
C24_AssignIsBroadcast ==
    [][ (last'.op = "assign" /\ last'.code = HTTP_OK) =>
            /\ Notified(INCIDENT_CHANNEL)
            /\ last'.message # NULL => Notified(UserChannel(last'.message[1]))
      ]_vars

\* C25: an escalation whose jurisdiction lookup finds no government
\* authority succeeds, issues no broadcast to a gov channel, and issues the
\* escalation broadcast to the incident's channel.
C25_UnmatchedEscalationReachesIncident ==
    [][ (last'.op = "escalate" /\ Exists(last'.id) /\ last'.message = NULL) =>
            /\ last'.code = HTTP_OK
            /\ \A g \in GovAuthorityLookups \ { NULL } :
                    ~Notified(GovChannel(g[1]))
            /\ Notified(INCIDENT_CHANNEL)
      ]_vars

\* Notification n has returned to its caller or raised into it.
FinishedUser(n) == user_tasks[n].pc \in { "returned", "raised" }

\* The websockets a send of notification n failed on.
FailedUser(n) ==
    { user_tasks[n].disconnected[k] :
        k \in 1 .. Len(user_tasks[n].disconnected) }

\* Websocket w is indexed under user_id.
Indexed(w, user_id) ==
    user_id \in DOMAIN user_connections /\ w \in user_connections[user_id]

\* C23: send_to_user delivers its message to every websocket indexed
\* under the user, whatever its channel, and a websocket the send failed on
\* is no longer indexed, the others having been delivered to.
C23_SendToUserDelivers ==
    \A n \in NotificationIds :
        FinishedUser(n) =>
            /\ \A w \in user_tasks[n].issued :
                    (sockets[w].open /\ Indexed(w, user_tasks[n].user_id))
                        => Count(n, received[w]) = 1
            /\ \A w \in FailedUser(n) : ~Indexed(w, user_tasks[n].user_id)

\* Websocket w was sent a PONG in this step.
Ponged(w) == received'[w] = Append(received[w], "PONG")

\* C26: the step that answers a PING sends the PONG to the sender alone
\* and leaves the channel map and the user index as they were.
C26_PingTouchesSenderOnly ==
    [][ \A w \in Conns :
            Ponged(w) =>
                /\ \A v \in Conns \ { w } : received'[v] = received[v]
                /\ active_connections' = active_connections
                /\ user_connections' = user_connections
      ]_vars

\* A websocket has its PONG while another subscriber of its channel has
\* received none.
C26_Witness ==
    \E w \in Conns, v \in Conns :
        /\ w # v
        /\ sockets[w].pc = "receiving" /\ sockets[v].pc = "receiving"
        /\ sockets[w].channel = sockets[v].channel
        /\ Pongs(w) = 1
        /\ Pongs(v) = 0

\* The identity an endpoint has of the sender of a forwarded message: the
\* NGO id of its path for UPDATE_TO_CITIZEN, otherwise the user_id it
\* connected with, which may be none.
SenderIdentity(from) ==
    IF from.type = UPDATE_TO_CITIZEN THEN Some("ngo1")
                                     ELSE sockets[from.conn].user_id

\* C27 as claimed: every inbound message an endpoint forwards is broadcast
\* to the channel its sender is subscribed to and carries the sender's
\* identity.
C27_ForwardedToOwnChannel ==
    \A b \in BroadcastIds :
        tasks[b].by # NULL =>
            /\ tasks[b].channel = sockets[tasks[b].by[1].conn].channel
            /\ tasks[b].by[1].tag = SenderIdentity(tasks[b].by[1])

\* C27 as amended: CITIZEN_UPDATE and ACCEPT_INCIDENT are broadcast to the
\* sender's own channel, UPDATE_TO_CITIZEN from an NGO endpoint to the
\* incident channel the message names, UPDATE_TO_NGO from a government
\* endpoint to the NGO channel the message names; the broadcast carries the
\* NGO id of the sender's path for UPDATE_TO_CITIZEN and otherwise the
\* user_id the sender connected with, which may be none.
C27_ForwardedByType ==
    \A b \in BroadcastIds :
        tasks[b].by # NULL =>
            LET from == tasks[b].by[1]
                own == sockets[from.conn].channel
            IN /\ from.type \in { CITIZEN_UPDATE, ACCEPT_INCIDENT }
                    => tasks[b].channel = own
               /\ from.type = UPDATE_TO_CITIZEN
                    => (own = NGO_CHANNEL /\ tasks[b].channel = INCIDENT_CHANNEL)
               /\ from.type = UPDATE_TO_NGO
                    => (own = GOV_CHANNEL /\ tasks[b].channel = NGO_CHANNEL)
               /\ from.tag = SenderIdentity(from)

\* An UPDATE_TO_CITIZEN sent on an NGO endpoint has been delivered to a
\* subscriber of the incident channel.
C27_Witness ==
    \E b \in BroadcastIds, w \in Conns :
        /\ tasks[b].by # NULL
        /\ tasks[b].by[1].type = UPDATE_TO_CITIZEN
        /\ sockets[w].channel = INCIDENT_CHANNEL
        /\ Count(b, received[w]) = 1
====
